---- MODULE Spec2Model ----
(***************************************************************************)
(* netmonrs: a terminal dashboard that polls `pgrep` and `lsof` for the    *)
(* remote endpoints of one process.  A poller thread extracts endpoints,   *)
(* remembers the ones it has announced and sends DataUpdate / Error        *)
(* messages over an mpsc channel; the presenter loop handles keys and      *)
(* applies the messages to the App (the view model).                       *)
(*                                                                         *)
(* Rust strings are modelled as sequences of one-character strings, so     *)
(* that find / split / slice / format! are computed and not assumed.       *)
(* Indices of the Rust code are 0-based; Seq indices are 1-based.          *)
(***************************************************************************)
EXTENDS Integers, Sequences, FiniteSets, TLC

VARIABLES
    \* ---- poller thread (main.rs 156-238)
    seen_ips_thread_copy,   \* HashSet<String> of announced endpoints
    poll_pc,                \* "pgrep" | "lsof" | "sleep"
    pid,                    \* the trimmed first pgrep line, while at "lsof"
    \* ---- mpsc channel (main.rs 154)
    chan,                   \* messages sent and not yet received, oldest first
    \* ---- App (main.rs 48-59)
    active_connections, history_log, seen_ips, last_status_msg,
    focus, active_state, history_state,
    \* ---- presenter loop (main.rs 240-276)
    pres_pc,                \* "terminal_new" | "frame" | "drain" | "quit" | "error"
    \* ---- main (main.rs 131-148)
    main_pc,                \* the call main is at, or "exited"
    raw_mode,               \* the terminal is in raw mode
    alternate_screen,       \* the alternate screen is entered
    res,                    \* what run_app returned: "none" yet | "Ok" | "Err"
    exit_code,              \* the process exit status, None while it runs
    \* ---- history variables (observations, not program state)
    generated,              \* every entry the poller pushed, in push order
    emitted,                \* messages sent in the current poll iteration
    last_poll,              \* tool results of the last finished iteration
    applied_entries,        \* number of entries carried by the applied DataUpdates
    poll_log,               \* logged run: the outcome of every finished iteration
    active_trace,           \* logged run: the active list after each applied message
    \* ---- pure-function harnesses
    ex_in, ex_out,          \* Endpoint Extractor input text / result
    filled,                 \* the address each entry of a filled history was made for
    failed                  \* the terminal calls that returned an error so far

vars == <<seen_ips_thread_copy, poll_pc, pid, chan, active_connections,
          history_log, seen_ips, last_status_msg, focus, active_state,
          history_state, pres_pc, main_pc, raw_mode, alternate_screen, res,
          exit_code, generated, emitted, last_poll, applied_entries,
          poll_log, active_trace, ex_in, ex_out, filled, failed>>

-----------------------------------------------------------------------------
(* Strings *)

None == -1          \* Option::None of an index (usize is never negative)

IsWhitespace(c) == c \in {" ", "\t", "\n", "\r", "\f"}

Min(S) == CHOOSE x \in S : \A y \in S : x <= y

Range(s) == {s[i] : i \in 1..Len(s)}

\* &s[from..to] with 0-based byte offsets, `to` exclusive
Slice(s, from, to) == SubSeq(s, from + 1, to)

\* str::find(pat: &str): 0-based offset of the first occurrence, or None
Find(s, pat) ==
    LET hits == {p \in 0..(Len(s) - Len(pat)) :
                    \A k \in 1..Len(pat) : s[p + k] = pat[k]}
    IN IF hits = {} THEN None ELSE Min(hits)

\* str::find(|c| c.is_whitespace() || c == ':')
FindWsOrColon(s) ==
    LET hits == {p \in 0..(Len(s) - 1) : IsWhitespace(s[p + 1]) \/ s[p + 1] = ":"}
    IN IF hits = {} THEN None ELSE Min(hits)

Contains(s, c) == \E i \in 1..Len(s) : s[i] = c

StripCR(l) == IF Len(l) > 0 /\ l[Len(l)] = "\r" THEN SubSeq(l, 1, Len(l) - 1) ELSE l

\* str::lines(): the pieces between the "\n"s, each without one trailing
\* "\r"; what follows the last "\n" is a line only when it is not empty.
Lines(text) ==
    LET nl == {i \in 1..Len(text) : text[i] = "\n"}
        n == Cardinality(nl) + (IF Len(text) > 0 /\ text[Len(text)] # "\n" THEN 1 ELSE 0)
        \* offset just past the k-th "\n" (0 for k = 0)
        After(k) == IF k = 0 THEN 0
                    ELSE CHOOSE i \in nl : Cardinality({j \in nl : j < i}) = k - 1
        \* 1-based position of the "\n" ending line k, or one past the text
        Stop(k) == IF k <= Cardinality(nl) THEN After(k) ELSE Len(text) + 1
    IN [k \in 1..n |-> StripCR(SubSeq(text, After(k - 1) + 1, Stop(k) - 1))]

\* str::trim()
RECURSIVE TrimStart(_)
TrimStart(s) == IF s # <<>> /\ IsWhitespace(Head(s)) THEN TrimStart(Tail(s)) ELSE s
RECURSIVE TrimEnd(_)
TrimEnd(s) ==
    IF s # <<>> /\ IsWhitespace(s[Len(s)]) THEN TrimEnd(SubSeq(s, 1, Len(s) - 1)) ELSE s
Trim(s) == TrimEnd(TrimStart(s))

-----------------------------------------------------------------------------
(* Endpoint Extractor: the body of `for line in output_str.lines().skip(1)` *)

lsof_line_pattern == <<"-", ">">>

\* LineEndpoint with the candidate ended at whitespace only: the port stays on
LineEndpoint_KeepsPort(line) ==
    LET pos == Find(line, lsof_line_pattern) IN
    IF pos = None \/ ~(pos + 2 < Len(line)) THEN <<>>
    ELSE LET ip_part == Slice(line, pos + 2, Len(line))
             ws == {p \in 0..(Len(ip_part) - 1) : IsWhitespace(ip_part[p + 1])}
             ip == Slice(ip_part, 0, IF ws = {} THEN Len(ip_part) ELSE Min(ws))
         IN IF ip # <<>> /\ (Contains(ip, ".") \/ Contains(ip, ":")) THEN <<ip>> ELSE <<>>

\* LineEndpoint with the candidate ended at whitespace and, failing that, at
\* its last ':' (the one before the port)
LineEndpoint_CutAtLastColon(line) ==
    LET pos == Find(line, lsof_line_pattern) IN
    IF pos = None \/ ~(pos + 2 < Len(line)) THEN <<>>
    ELSE LET ip_part == Slice(line, pos + 2, Len(line))
             ws == {p \in 0..(Len(ip_part) - 1) : IsWhitespace(ip_part[p + 1])}
             word == Slice(ip_part, 0, IF ws = {} THEN Len(ip_part) ELSE Min(ws))
             colons == {p \in 0..(Len(word) - 1) : word[p + 1] = ":"}
             ip == Slice(word, 0, IF colons = {} THEN Len(word)
                                  ELSE CHOOSE p \in colons : \A q \in colons : q <= p)
         IN IF ip # <<>> /\ (Contains(ip, ".") \/ Contains(ip, ":"))
            THEN IF ip[1] = "[" /\ ip[Len(ip)] = "]" THEN <<Slice(ip, 1, Len(ip) - 1)>> ELSE <<ip>>
            ELSE <<>>

\* LineEndpoint without the test for '.' or ':': any non-empty candidate passes
LineEndpoint_Unfiltered(line) ==
    LET pos == Find(line, lsof_line_pattern) IN
    IF pos = None \/ ~(pos + 2 < Len(line)) THEN <<>>
    ELSE LET ip_part == Slice(line, pos + 2, Len(line))
             found   == FindWsOrColon(ip_part)
             ip      == Slice(ip_part, 0, IF found = None THEN Len(ip_part) ELSE found)
         IN IF ip # <<>>
            THEN IF ip[1] = "[" /\ ip[Len(ip)] = "]" THEN <<Slice(ip, 1, Len(ip) - 1)>> ELSE <<ip>>
            ELSE <<>>

\* main.rs 182-196: the endpoint one line contributes, as <<>> or <<final_ip>>
LineEndpoint(line) ==
    LET pos == Find(line, lsof_line_pattern) IN
    IF pos = None THEN <<>>
    ELSE LET ip_start == pos + 2 IN
         IF ~(ip_start < Len(line)) THEN <<>>
         ELSE LET ip_part == Slice(line, ip_start, Len(line))
                  found   == FindWsOrColon(ip_part)
                  ip_end  == IF found = None THEN Len(ip_part) ELSE found
                  ip      == Slice(ip_part, 0, ip_end)
              IN IF ip # <<>> /\ (Contains(ip, ".") \/ Contains(ip, ":"))
                 THEN IF ip[1] = "[" /\ ip[Len(ip)] = "]"
                      THEN <<Slice(ip, 1, Len(ip) - 1)>>
                      ELSE <<ip>>
                 ELSE <<>>

\* format!("[{}] {}", ts, s)
HistoryEntry(ts, s) == <<"[">> \o ts \o <<"]", " ">> \o s

\* ExtractLoop with active.insert moved inside the "not seen before" test:
\* the active set holds only what the iteration announces
RECURSIVE ExtractLoop_ActiveOnlyNew(_, _, _, _)
ExtractLoop_ActiveOnlyNew(lines, i, acc, clock) ==
    IF i > Len(lines) THEN acc
    ELSE LET e == LineEndpoint(lines[i]) IN
         IF e = <<>> \/ e[1] \in acc.seen
         THEN ExtractLoop_ActiveOnlyNew(lines, i + 1, acc, clock)
         ELSE ExtractLoop_ActiveOnlyNew(lines, i + 1,
                    [active |-> acc.active \cup {e[1]},
                     seen |-> acc.seen \cup {e[1]},
                     new_entries |-> Append(acc.new_entries,
                                            HistoryEntry(clock[Len(acc.new_entries) + 1], e[1]))],
                    clock)

\* main.rs 178-207: one pass over the lines after the header.  acc carries
\* active (the iteration's HashSet), new_entries (Vec) and seen (the poller's
\* seen_ips_thread_copy); clock[k] is what Local::now() formats to when the
\* k-th new entry of the iteration is pushed.
RECURSIVE ExtractLoop(_, _, _, _)
ExtractLoop(lines, i, acc, clock) ==
    IF i > Len(lines) THEN acc
    ELSE LET e == LineEndpoint(lines[i]) IN
         IF e = <<>> THEN ExtractLoop(lines, i + 1, acc, clock)
         ELSE LET s == e[1]
                  fresh == s \notin acc.seen
                  ts == clock[Len(acc.new_entries) + 1]
              IN ExtractLoop(lines, i + 1,
                    [active |-> acc.active \cup {s},
                     seen |-> acc.seen \cup {s},
                     new_entries |-> IF fresh
                                     THEN Append(acc.new_entries, HistoryEntry(ts, s))
                                     ELSE acc.new_entries],
                    clock)

\* Extract with the announced set rebuilt from each poll: an endpoint counts
\* as new whenever the poll before did not list it
Extract_ForgetsAnnounced(output_str, seen, clock) ==
    ExtractLoop(Lines(output_str), 2,
                [active |-> {}, seen |-> {}, new_entries |-> <<>>], clock)

\* lines().skip(1) starts at the second line
Extract(output_str, seen, clock) ==
    ExtractLoop(Lines(output_str), 2,
                [active |-> {}, seen |-> seen, new_entries |-> <<>>], clock)

-----------------------------------------------------------------------------
(* Ordering of the active list: sort_by with the IpAddr-or-text comparator *)

Digits == <<"0", "1", "2", "3", "4", "5", "6", "7", "8", "9">>
IsDigit(c) == \E d \in 1..10 : Digits[d] = c
DigitVal(c) == (CHOOSE d \in 1..10 : Digits[d] = c) - 1

\* str::split('.') as a sequence of pieces
RECURSIVE SplitDot(_, _, _)
SplitDot(s, i, cur) ==
    IF i > Len(s) THEN <<cur>>
    ELSE IF s[i] = "." THEN <<cur>> \o SplitDot(s, i + 1, <<>>)
         ELSE SplitDot(s, i + 1, Append(cur, s[i]))

RECURSIVE DecValue(_, _)
DecValue(ds, acc) ==
    IF ds = <<>> THEN acc ELSE DecValue(Tail(ds), acc * 10 + DigitVal(Head(ds)))

\* One octet as the Ipv4Addr parser reads it: 1 to 3 decimal digits, no
\* leading zero on a longer group, value at most 255.
IsOctet(p) ==
    /\ Len(p) \in 1..3
    /\ \A i \in 1..Len(p) : IsDigit(p[i])
    /\ (Len(p) > 1 => p[1] # "0")
    /\ DecValue(p, 0) <= 255

\* a.parse::<IpAddr>(): Ok as <<o1, o2, o3, o4>>, Err as <<>>.  The
\* Ipv6Addr alternative needs a ':' in the text; the operands are extracted
\* endpoints, which are cut at the first ':' (main.rs 186) and hold none.
ParseIpAddr(s) ==
    LET parts == SplitDot(s, 1, <<>>) IN
    IF Len(parts) = 4 /\ \A k \in 1..4 : IsOctet(parts[k])
    THEN [k \in 1..4 |-> DecValue(parts[k], 0)]
    ELSE <<>>

\* Ord of two octet tuples / of two strings by code point.  The model's
\* alphabet is ASCII (less the quote, backslash and backtick); CharCode lists
\* it in code-point order.
CharCode ==
    <<"\t", "\n", "\f", "\r", " ", "!", "#", "$", "%", "&", "'", "(", ")", "*", "+",
      ",", "-", ".", "/", "0", "1", "2", "3", "4", "5", "6", "7", "8", "9", ":", ";",
      "<", "=", ">", "?", "@", "A", "B", "C", "D", "E", "F", "G", "H", "I", "J", "K",
      "L", "M", "N", "O", "P", "Q", "R", "S", "T", "U", "V", "W", "X", "Y", "Z", "[",
      "]", "^", "_", "a", "b", "c", "d", "e", "f", "g", "h", "i", "j", "k",
      "l", "m", "n", "o", "p", "q", "r", "s", "t", "u", "v", "w", "x", "y", "z", "{",
      "|", "}", "~">>
Code(c) == CHOOSE k \in 1..Len(CharCode) : CharCode[k] = c

RECURSIVE CmpSeq(_, _, _)
CmpSeq(a, b, key) ==
    IF a = <<>> /\ b = <<>> THEN "Equal"
    ELSE IF a = <<>> THEN "Less"
    ELSE IF b = <<>> THEN "Greater"
    ELSE IF key[Head(a)] < key[Head(b)] THEN "Less"
    ELSE IF key[Head(a)] > key[Head(b)] THEN "Greater"
    ELSE CmpSeq(Tail(a), Tail(b), key)

CmpStr(a, b) == CmpSeq(a, b, [c \in Range(CharCode) |-> Code(c)])
CmpIp(x, y) == CmpSeq(x, y, [n \in 0..255 |-> n])

\* main.rs 211-216: the closure given to sort_by
CompareConnections(a, b) ==
    LET ip_a == ParseIpAddr(a)
        ip_b == ParseIpAddr(b)
    IN IF ip_a # <<>> /\ ip_b # <<>> THEN CmpIp(ip_a, ip_b) ELSE CmpStr(a, b)

Arrangements(S) ==
    {p \in [1..Cardinality(S) -> S] : \A i, j \in 1..Cardinality(S) : p[i] = p[j] => i = j}

IsOrdered(p) ==
    \A i, j \in 1..Len(p) : i < j => CompareConnections(p[i], p[j]) # "Greater"

\* main.rs 210-216: the HashSet collected in its (arbitrary) iteration order
\* and sorted.  Where the comparator orders the set, the result is the one
\* ordered arrangement; where it does not (it is no total order on mixed
\* parseable and unparseable text), sort_by leaves an unspecified order.
SortedConnections(active) ==
    LET ordered == {p \in Arrangements(active) : IsOrdered(p)}
    IN IF ordered # {} THEN ordered ELSE Arrangements(active)

-----------------------------------------------------------------------------
(* The world outside the program: the command line, the two tools, the clock *)

Target == <<"f", "o", "o">>                       \* args.target

EpA == <<"9", ".", "0", ".", "0", ".", "1">>
EpB == <<"1", "0", ".", "0", ".", "0", ".", "1">>
EpC == <<"1", "0", ".", "0", ".", "0", ".", "2">>
EpD == <<"1", "7", "2", ".", "1", "6", ".", "0", ".", "1">>

Header == <<"C", "O", "M", "M", "A", "N", "D", " ", "P", "I", "D", " ", "N", "A", "M", "E">>

\* a line of `lsof -i -P -n -p <pid>` for an established connection to ep
ConnLine(ep) ==
    <<"f", "o", "o", " ", "7", " ", "T", "C", "P", " ",
      "1", "0", ".", "0", ".", "0", ".", "9", ":", "5", "5", "-", ">">>
    \o ep \o
    <<":", "8", "0", " ", "(", "E", "S", "T", "A", "B", "L", "I", "S", "H", "E", "D", ")">>

\* a tool's stdout: every line ended by a newline
RECURSIVE Stdout(_)
Stdout(lines) == IF lines = <<>> THEN <<>> ELSE Head(lines) \o <<"\n">> \o Stdout(Tail(lines))

LsofOutputs ==
    { Stdout(<<Header, ConnLine(EpA), ConnLine(EpB)>>),
      Stdout(<<Header, ConnLine(EpB), ConnLine(EpA)>>),
      Stdout(<<Header, ConnLine(EpA)>>),
      Stdout(<<Header>>) }

\* pgrep -f <target> prints one PID per line: no match, one match, two matches
PgrepOutputs == { <<>>, <<"7", "\n">>, <<"7", "\n", "8", "\n">> }

IoErrors == { <<"E", "N", "O", "E", "N", "T">> }  \* Display text of an io::Error

\* Result<Output, io::Error> of Command::output()
ToolResults(outputs) ==
    {[ok |-> TRUE, stdout |-> o, err |-> <<>>] : o \in outputs}
    \cup {[ok |-> FALSE, stdout |-> <<>>, err |-> e] : e \in IoErrors}

Timestamps == { <<"1", "2", ":", "0", "0", ":", "0", "0">> }

\* Local::now() as formatted for the k-th entry an iteration pushes; an
\* iteration pushes at most one entry per line after the header
Clocks(stdout) == [1..(Len(Lines(stdout)) - 1) -> Timestamps]

\* the most messages the model lets wait in the (unbounded) channel
MaxChan == 2

-----------------------------------------------------------------------------
(* Messages and status strings *)

\* a format! result: the format string and its one argument
Fmt(f, arg) == [fmt |-> f, arg |-> arg]

DataUpdate(active, new_history_entries, pid_msg) ==
    [type |-> "DataUpdate", active |-> active,
     new_history_entries |-> new_history_entries, msg |-> pid_msg]

Error(msg) ==
    [type |-> "Error", active |-> <<>>, new_history_entries |-> <<>>, msg |-> msg]

-----------------------------------------------------------------------------
(* App: the view model (main.rs 61-128) *)

SeenCap == 1000     \* update_seen_ips looks at the last 1000 entries

\* NextIndex that wraps only from exactly the last row and counts on from
\* any other index
NextIndex_ExactLast(selected, len) ==
    IF selected = None THEN 0
    ELSE IF selected = len - 1 THEN 0 ELSE selected + 1

\* NextIndex that stops at the last row instead of wrapping
NextIndex_NoWrap(selected, len) ==
    IF selected = None THEN 0
    ELSE IF selected >= len - 1 THEN len - 1 ELSE selected + 1

\* main.rs 83-86 / 97-100 for a list of len > 0
NextIndex(selected, len) ==
    IF selected = None THEN 0
    ELSE IF selected >= len - 1 THEN 0 ELSE selected + 1

PreviousIndex(selected, len) ==
    IF selected = None THEN 0
    ELSE IF selected = 0 THEN len - 1 ELSE selected - 1

\* The two ListStates; next / previous work on the one `focus` names.
Cursors == [active_state |-> active_state, history_state |-> history_state]

FocusedLen ==
    IF focus = "ActiveList" THEN Len(active_connections) ELSE Len(history_log)

FocusedState(c) == IF focus = "ActiveList" THEN c.active_state ELSE c.history_state

\* App::next (main.rs 76-88)
next(c) ==
    IF FocusedLen = 0 THEN c
    ELSE IF focus = "ActiveList"
         THEN [c EXCEPT !.active_state = NextIndex(@, FocusedLen)]
         ELSE [c EXCEPT !.history_state = NextIndex(@, FocusedLen)]

\* App::previous (main.rs 90-102)
previous(c) ==
    IF FocusedLen = 0 THEN c
    ELSE IF focus = "ActiveList"
         THEN [c EXCEPT !.active_state = PreviousIndex(@, FocusedLen)]
         ELSE [c EXCEPT !.history_state = PreviousIndex(@, FocusedLen)]

\* for _ in 0..n { app.next(); } and the same for previous (main.rs 251-252)
RECURSIVE NextTimes(_, _)
NextTimes(c, n) == IF n = 0 THEN c ELSE NextTimes(next(c), n - 1)
RECURSIVE PreviousTimes(_, _)
PreviousTimes(c, n) == IF n = 0 THEN c ELSE PreviousTimes(previous(c), n - 1)

\* toggle_focus that only ever moves to the history list
toggle_focus_OneWay(f) == "HistoryList"

\* App::toggle_focus (main.rs 104-109)
toggle_focus(f) == IF f = "ActiveList" THEN "HistoryList" ELSE "ActiveList"

\* h.split_whitespace().last(): the last maximal run of non-whitespace
\* characters, as <<>> for Option::None, else <<token>>.
LastToken(h) ==
    LET inside == {i \in 1..Len(h) : ~IsWhitespace(h[i])} IN
    IF inside = {} THEN <<>>
    ELSE LET to == CHOOSE i \in inside : \A j \in inside : j <= i
             gaps == {i \in 1..to : IsWhitespace(h[i])}
             from == IF gaps = {} THEN 1
                     ELSE (CHOOSE i \in gaps : \A j \in gaps : j <= i) + 1
         IN <<SubSeq(h, from, to)>>

\* main.rs 119-125: insert the last token of every entry that has one
CollectSeen(history_to_check) ==
    {LastToken(history_to_check[i])[1] :
        i \in {j \in 1..Len(history_to_check) :
                  LET ip == LastToken(history_to_check[j])
                  IN ip # <<>> /\ ip[1] # <<>>}}

\* update_seen_ips without the 1000-entry window
update_seen_ips_WholeLog(log) == CollectSeen(log)

\* App::update_seen_ips (main.rs 111-127): the new value of seen_ips
update_seen_ips(log) ==
    LET history_to_check ==
            IF Len(log) > SeenCap
            THEN SubSeq(log, Len(log) - SeenCap + 1, Len(log))
            ELSE log
    IN CollectSeen(history_to_check)

\* PushAll that puts each entry at the front (the order the pane shows)
PushAll_AtFront(log, entries) ==
    [k \in 1..(Len(entries) + Len(log)) |->
        IF k <= Len(entries) THEN entries[Len(entries) + 1 - k] ELSE log[k - Len(entries)]]

\* main.rs 265-267: for entry in new_history_entries { history_log.push(entry) }
PushAll(log, entries) == log \o entries

-----------------------------------------------------------------------------
(* Variable groups *)

poller_vars == <<seen_ips_thread_copy, poll_pc, pid>>
app_data    == <<active_connections, history_log, seen_ips, last_status_msg>>
app_ui      == <<focus, active_state, history_state>>
observed    == <<generated, emitted, last_poll, applied_entries>>
log_vars    == <<poll_log, active_trace>>
harness     == <<ex_in, ex_out, filled>>
main_vars   == <<main_pc, raw_mode, alternate_screen, res, exit_code, failed>>

\* outcome of a poll iteration: "pgrep_error", "not_found", "lsof_error" or
\* "data" with the socket tool's stdout
Outcome(kind, stdout) == [done |-> TRUE, kind |-> kind, stdout |-> stdout]
NoPoll == [done |-> FALSE, kind |-> "none", stdout |-> <<>>]

\* the poller thread is spawned once the terminal is built (main.rs 151-156);
\* the process lives until run_app returns (main.rs 247) and the thread dies
\* with it
Running == pres_pc \in {"frame", "drain"}

-----------------------------------------------------------------------------
(* Poller thread: one iteration of the loop at main.rs 160-237 *)

\* tx.send(msg) while the receiver lives
Send(msg) ==
    /\ chan' = Append(chan, msg)
    /\ emitted' = Append(emitted, msg)

\* PollPgrep that reports nothing when pgrep cannot be run
PollPgrep_SilentOnError(pgrep) ==
    /\ Running
    /\ poll_pc = "pgrep"
    /\ Len(chan) < MaxChan
    /\ IF ~pgrep.ok
       THEN /\ poll_pc' = "sleep"
            /\ pid' = <<>>
            /\ last_poll' = Outcome("pgrep_error", <<>>)
            /\ UNCHANGED <<chan, emitted>>
       ELSE LET pid_str == Lines(pgrep.stdout) IN
            IF pid_str = <<>>
            THEN /\ Send(Error(Fmt("Waiting for process '{}'...", Target)))
                 /\ poll_pc' = "sleep"
                 /\ pid' = <<>>
                 /\ last_poll' = Outcome("not_found", <<>>)
            ELSE /\ pid' = Trim(pid_str[1])
                 /\ poll_pc' = "lsof"
                 /\ UNCHANGED <<chan, emitted, last_poll>>
    /\ UNCHANGED <<seen_ips_thread_copy, generated, applied_entries>>
    /\ UNCHANGED <<app_data, app_ui, pres_pc>>

\* main.rs 163-169 and 226-230: run pgrep, take the first line of its output
PollPgrep(pgrep) ==
    /\ Running
    /\ poll_pc = "pgrep"
    /\ Len(chan) < MaxChan
    /\ IF ~pgrep.ok
       THEN /\ Send(Error(Fmt("PGREP Error: {}", pgrep.err)))
            /\ poll_pc' = "sleep"
            /\ pid' = <<>>
            /\ last_poll' = Outcome("pgrep_error", <<>>)
       ELSE LET pid_str == Lines(pgrep.stdout) IN
            IF pid_str = <<>>
            THEN /\ Send(Error(Fmt("Waiting for process '{}'...", Target)))
                 /\ poll_pc' = "sleep"
                 /\ pid' = <<>>
                 /\ last_poll' = Outcome("not_found", <<>>)
            ELSE /\ pid' = Trim(pid_str[1])
                 /\ poll_pc' = "lsof"
                 /\ UNCHANGED <<chan, emitted, last_poll>>
    /\ UNCHANGED <<seen_ips_thread_copy, generated, applied_entries>>
    /\ UNCHANGED <<app_data, app_ui, pres_pc>>

\* main.rs 171-225: run lsof for the pid, extract, diff, sort, send
PollLsof(lsof, clock) ==
    /\ Running
    /\ poll_pc = "lsof"
    /\ IF ~lsof.ok
       THEN /\ Send(Error(Fmt("LSOF Error: {}", lsof.err)))
            /\ last_poll' = Outcome("lsof_error", <<>>)
            /\ UNCHANGED <<seen_ips_thread_copy, generated>>
       ELSE LET r == Extract(lsof.stdout, seen_ips_thread_copy, clock) IN
            /\ seen_ips_thread_copy' = r.seen
            /\ generated' = generated \o r.new_entries
            /\ last_poll' = Outcome("data", lsof.stdout)
            /\ \E sorted_connections \in SortedConnections(r.active) :
                   Send(DataUpdate(sorted_connections, r.new_entries,
                                   Fmt("Monitoring PID: {}", pid)))
    /\ poll_pc' = "sleep"
    /\ pid' = <<>>
    /\ UNCHANGED applied_entries
    /\ UNCHANGED <<app_data, app_ui, pres_pc>>

\* main.rs 233-236: sleep out the second, then the next iteration
PollSleep ==
    /\ Running
    /\ poll_pc = "sleep"
    /\ poll_pc' = "pgrep"
    /\ emitted' = <<>>
    /\ UNCHANGED <<seen_ips_thread_copy, pid, chan, generated, last_poll, applied_entries>>
    /\ UNCHANGED <<app_data, app_ui, pres_pc>>

-----------------------------------------------------------------------------
(* Presenter loop (main.rs 240-276): draw and poll the keyboard, then drain *)

\* what one frame leaves unchanged whatever the key
FrameKeeps ==
    /\ pres_pc = "frame"
    /\ UNCHANGED <<poller_vars, chan, app_data, observed>>

\* event::poll timed out, or the event is no key press, or another key
KeyNone ==
    /\ FrameKeeps
    /\ pres_pc' = "drain"
    /\ UNCHANGED app_ui

\* KeyCode::Char('q') => return Ok(())
KeyQuit ==
    /\ FrameKeeps
    /\ pres_pc' = "quit"
    /\ UNCHANGED app_ui

\* KeyCode::Tab | Left | Right => app.toggle_focus()
KeyToggleFocus ==
    /\ FrameKeeps
    /\ pres_pc' = "drain"
    /\ focus' = toggle_focus(focus)
    /\ UNCHANGED <<active_state, history_state>>

SetCursors(c) ==
    /\ active_state' = c.active_state
    /\ history_state' = c.history_state
    /\ UNCHANGED focus

\* KeyCode::Down | Char('j') => app.next()
KeyNext == FrameKeeps /\ pres_pc' = "drain" /\ SetCursors(next(Cursors))

\* KeyCode::Up | Char('k') => app.previous()
KeyPrevious == FrameKeeps /\ pres_pc' = "drain" /\ SetCursors(previous(Cursors))

\* KeyCode::PageDown => for _ in 0..10 { app.next() }
KeyPageDown == FrameKeeps /\ pres_pc' = "drain" /\ SetCursors(NextTimes(Cursors, 10))

\* KeyCode::PageUp => for _ in 0..10 { app.previous() }
KeyPageUp == FrameKeeps /\ pres_pc' = "drain" /\ SetCursors(PreviousTimes(Cursors, 10))

\* ApplyDataUpdate that takes the list and the status and drops the entries
ApplyDataUpdate_DropsEntries(msg) ==
    /\ active_connections' = msg.active
    /\ last_status_msg' = msg.msg
    /\ UNCHANGED <<history_log, seen_ips>>

\* main.rs 261-269: the DataUpdate arm
ApplyDataUpdate(msg) ==
    /\ active_connections' = msg.active
    /\ last_status_msg' = msg.msg
    /\ history_log' = PushAll(history_log, msg.new_history_entries)
    /\ seen_ips' = update_seen_ips(history_log')

\* ApplyError that wipes the whole model, not only the live list
ApplyError_ClearsHistory(msg) ==
    /\ last_status_msg' = msg.msg
    /\ active_connections' = <<>>
    /\ history_log' = <<>>
    /\ seen_ips' = {}

\* main.rs 270-273: the Error arm
ApplyError(msg) ==
    /\ last_status_msg' = msg.msg
    /\ active_connections' = <<>>
    /\ UNCHANGED <<history_log, seen_ips>>

\* DrainApply that takes the newest waiting message first
DrainApply_NewestFirst ==
    /\ pres_pc = "drain"
    /\ chan # <<>>
    /\ LET msg == chan[Len(chan)] IN
        /\ IF msg.type = "DataUpdate" THEN ApplyDataUpdate(msg) ELSE ApplyError(msg)
        /\ applied_entries' = applied_entries + Len(msg.new_history_entries)
    /\ chan' = SubSeq(chan, 1, Len(chan) - 1)
    /\ UNCHANGED <<poller_vars, app_ui, pres_pc, generated, emitted, last_poll>>

\* DrainApply that pulls the active cursor back into the list it has just set
DrainApply_ClipsSelection ==
    /\ pres_pc = "drain"
    /\ chan # <<>>
    /\ LET msg == Head(chan) IN
        /\ IF msg.type = "DataUpdate" THEN ApplyDataUpdate(msg) ELSE ApplyError(msg)
        /\ applied_entries' = applied_entries + Len(msg.new_history_entries)
    /\ chan' = Tail(chan)
    /\ active_state' = IF active_state < Len(active_connections') THEN active_state
                       ELSE Len(active_connections') - 1
    /\ UNCHANGED <<focus, history_state>>
    /\ UNCHANGED <<poller_vars, pres_pc, generated, emitted, last_poll>>

\* main.rs 259-260: rx.try_recv() returned a message
DrainApply ==
    /\ pres_pc = "drain"
    /\ chan # <<>>
    /\ LET msg == Head(chan) IN
        /\ IF msg.type = "DataUpdate" THEN ApplyDataUpdate(msg) ELSE ApplyError(msg)
        /\ applied_entries' = applied_entries + Len(msg.new_history_entries)
    /\ chan' = Tail(chan)
    /\ UNCHANGED <<poller_vars, app_ui, pres_pc, generated, emitted, last_poll>>

\* DrainEnd that may leave the while loop with messages still waiting
DrainEnd_StopsEarly ==
    /\ pres_pc = "drain"
    /\ pres_pc' = "frame"
    /\ UNCHANGED <<poller_vars, chan, app_data, app_ui, observed>>

\* rx.try_recv() found the channel empty: the while loop ends, next frame
DrainEnd ==
    /\ pres_pc = "drain"
    /\ chan = <<>>
    /\ pres_pc' = "frame"
    /\ UNCHANGED <<poller_vars, chan, app_data, app_ui, observed>>

-----------------------------------------------------------------------------
(* The program under tools that may answer anything in their universes *)

\* App::new (main.rs 62-74), and both threads at the top of their loops
InitProgram ==
    /\ seen_ips_thread_copy = {}
    /\ poll_pc = "pgrep"
    /\ pid = <<>>
    /\ chan = <<>>
    /\ active_connections = <<>>
    /\ history_log = <<>>
    /\ seen_ips = {}
    /\ last_status_msg = Fmt("Initializing...", <<>>)
    /\ focus = "ActiveList"
    /\ active_state = None
    /\ history_state = None
    /\ pres_pc = "frame"
    /\ generated = <<>>
    /\ emitted = <<>>
    /\ last_poll = NoPoll
    /\ applied_entries = 0

\* main inside run_app (main.rs 138): raw mode on, alternate screen entered
InitInRunApp ==
    /\ main_pc = "run_app"
    /\ raw_mode = TRUE
    /\ alternate_screen = TRUE
    /\ res = "none"
    /\ exit_code = None
    /\ failed = {}

InitIdle ==
    /\ InitInRunApp
    /\ poll_log = <<>>
    /\ active_trace = <<>>
    /\ ex_in = <<>>
    /\ ex_out = [done |-> FALSE, endpoints |-> {}, new_entries |-> <<>>]
    /\ filled = <<>>

Init == InitProgram /\ InitIdle

Idle == UNCHANGED <<log_vars, harness, main_vars>>

Pgrep == Idle /\ \E r \in ToolResults(PgrepOutputs) : PollPgrep(r)
Lsof == Idle /\ \E r \in ToolResults(LsofOutputs) : \E clock \in Clocks(r.stdout) : PollLsof(r, clock)
Sleep == Idle /\ PollSleep
NoKey == Idle /\ KeyNone
Quit == Idle /\ KeyQuit
ToggleFocus == Idle /\ KeyToggleFocus
Down == Idle /\ KeyNext
Up == Idle /\ KeyPrevious
PageDown == Idle /\ KeyPageDown
PageUp == Idle /\ KeyPageUp
Apply == Idle /\ DrainApply
Drained == Idle /\ DrainEnd

Next ==
    \/ Pgrep \/ Lsof \/ Sleep
    \/ NoKey \/ Quit \/ ToggleFocus \/ Down \/ Up \/ PageDown \/ PageUp
    \/ Apply \/ Drained

Spec == Init /\ [][Next]_vars

-----------------------------------------------------------------------------
(* The Endpoint Extractor alone, on socket-tool output of up to MaxExLines   *)
(* lines drawn from ExLines                                                  *)

\* "foo 1234 u IPv4 TCP 10.0.0.1:55 -> 192.168.1.1:80 (ESTABLISHED)"
LineV4Spaced ==
    <<"f", "o", "o", " ", "1", "2", "3", "4", " ", "u", " ", "I", "P", "v", "4", " ",
      "T", "C", "P", " ", "1", "0", ".", "0", ".", "0", ".", "1", ":", "5", "5", " ",
      "-", ">", " ", "1", "9", "2", ".", "1", "6", "8", ".", "1", ".", "1", ":", "8",
      "0", " ", "(", "E", "S", "T", "A", "B", "L", "I", "S", "H", "E", "D", ")">>

\* "foo 1234 u IPv4 TCP 10.0.0.1:55->192.168.1.1:80 (ESTABLISHED)"
LineV4 ==
    <<"f", "o", "o", " ", "1", "2", "3", "4", " ", "u", " ", "I", "P", "v", "4", " ",
      "T", "C", "P", " ", "1", "0", ".", "0", ".", "0", ".", "1", ":", "5", "5", "-",
      ">", "1", "9", "2", ".", "1", "6", "8", ".", "1", ".", "1", ":", "8", "0", " ",
      "(", "E", "S", "T", "A", "B", "L", "I", "S", "H", "E", "D", ")">>

\* "foo 1234 u IPv6 TCP [::1]:55 -> [2001:db8::1]:443 "
LineV6BracketSpaced ==
    <<"f", "o", "o", " ", "1", "2", "3", "4", " ", "u", " ", "I", "P", "v", "6", " ",
      "T", "C", "P", " ", "[", ":", ":", "1", "]", ":", "5", "5", " ", "-", ">", " ",
      "[", "2", "0", "0", "1", ":", "d", "b", "8", ":", ":", "1", "]", ":", "4", "4",
      "3", " ">>

\* "foo 1234 u IPv6 TCP [::1]:55->[2001:db8::1]:443 "
LineV6Bracket ==
    <<"f", "o", "o", " ", "1", "2", "3", "4", " ", "u", " ", "I", "P", "v", "6", " ",
      "T", "C", "P", " ", "[", ":", ":", "1", "]", ":", "5", "5", "-", ">", "[", "2",
      "0", "0", "1", ":", "d", "b", "8", ":", ":", "1", "]", ":", "4", "4", "3", " ">>

\* "foo 1234 u IPv6 TCP ::1:55->2001:db8::1:443 (ESTABLISHED)"
LineV6Bare ==
    <<"f", "o", "o", " ", "1", "2", "3", "4", " ", "u", " ", "I", "P", "v", "6", " ",
      "T", "C", "P", " ", ":", ":", "1", ":", "5", "5", "-", ">", "2", "0", "0", "1",
      ":", "d", "b", "8", ":", ":", "1", ":", "4", "4", "3", " ", "(", "E", "S", "T",
      "A", "B", "L", "I", "S", "H", "E", "D", ")">>

\* "foo 1234 u IPv4 TCP localhost:55->localhost:80 (ESTABLISHED)"
LineHost ==
    <<"f", "o", "o", " ", "1", "2", "3", "4", " ", "u", " ", "I", "P", "v", "4", " ",
      "T", "C", "P", " ", "l", "o", "c", "a", "l", "h", "o", "s", "t", ":", "5", "5",
      "-", ">", "l", "o", "c", "a", "l", "h", "o", "s", "t", ":", "8", "0", " ", "(",
      "E", "S", "T", "A", "B", "L", "I", "S", "H", "E", "D", ")">>

\* "foo 1234 u IPv4 TCP *:80 (LISTEN)"
LineListen ==
    <<"f", "o", "o", " ", "1", "2", "3", "4", " ", "u", " ", "I", "P", "v", "4", " ",
      "T", "C", "P", " ", "*", ":", "8", "0", " ", "(", "L", "I", "S", "T", "E", "N",
      ")">>

\* "foo ->"
LineArrowLast ==
    <<"f", "o", "o", " ", "-", ">">>

\* "foo ->[1.2.3.4] x"
LineV4Bracket ==
    <<"f", "o", "o", " ", "-", ">", "[", "1", ".", "2", ".", "3", ".", "4", "]", " ",
      "x">>

\* "foo ->a.b"
LineUnterminated ==
    <<"f", "o", "o", " ", "-", ">", "a", ".", "b">>

\* "foo 1234 u IPv6 TCP ::1:55->::ffff:10.0.0.1:443 (ESTABLISHED)"
LineV6Mapped ==
    <<"f", "o", "o", " ", "1", "2", "3", "4", " ", "u", " ", "I", "P", "v", "6", " ",
      "T", "C", "P", " ", ":", ":", "1", ":", "5", "5", "-", ">", ":", ":", "f", "f",
      "f", "f", ":", "1", "0", ".", "0", ".", "0", ".", "1", ":", "4", "4", "3", " ",
      "(", "E", "S", "T", "A", "B", "L", "I", "S", "H", "E", "D", ")">>

\* "192.168.1.1"
EpV4 ==
    <<"1", "9", "2", ".", "1", "6", "8", ".", "1", ".", "1">>

\* "2001:db8::1"
EpV6 ==
    <<"2", "0", "0", "1", ":", "d", "b", "8", ":", ":", "1">>

ExLines ==
    { Header, LineV4Spaced, LineV4, LineV6BracketSpaced, LineV6Bracket, LineV6Bare,
      LineV6Mapped, LineHost, LineListen, LineArrowLast, LineV4Bracket, LineUnterminated }

MaxExLines == 3

ExtractInputs == {Stdout(ls) : ls \in UNION {[1..k -> ExLines] : k \in 0..MaxExLines}}

\* the set `active` of main.rs 178-207 for one socket-tool output, with no
\* endpoint announced before
ExtractEndpoints(output_str) ==
    Extract(output_str, {}, [k \in 1..Len(Lines(output_str)) |-> CHOOSE ts \in Timestamps : TRUE]).active

\* the Vec `new_entries` of the same pass
ExtractEntries(output_str) ==
    Extract(output_str, {}, [k \in 1..Len(Lines(output_str)) |-> CHOOSE ts \in Timestamps : TRUE]).new_entries

RunExtract ==
    /\ ~ex_out.done
    /\ ex_out' = [done |-> TRUE, endpoints |-> ExtractEndpoints(ex_in),
                  new_entries |-> ExtractEntries(ex_in)]
    /\ UNCHANGED <<poller_vars, chan, app_data, app_ui, pres_pc, observed,
                   log_vars, ex_in, filled, main_vars>>

InitExtract ==
    /\ InitProgram
    /\ InitInRunApp
    /\ poll_log = <<>>
    /\ active_trace = <<>>
    /\ filled = <<>>
    /\ ex_in \in ExtractInputs
    /\ ex_out = [done |-> FALSE, endpoints |-> {}, new_entries |-> <<>>]

NextExtract == RunExtract

SpecExtract == InitExtract /\ [][NextExtract]_vars

\* the first line of `text` is the column header and `line` is a later line
HasDataLine(text, line) ==
    /\ Lines(text) # <<>>
    /\ Lines(text)[1] = Header
    /\ \E k \in 2..Len(Lines(text)) : Lines(text)[k] = line

\* C3 as stated: an output with the line "foo 1234 u IPv4 TCP 10.0.0.1:55 ->
\* 192.168.1.1:80 (ESTABLISHED)" after its header, a space following the
\* arrow, yields a set containing "192.168.1.1".
C3_SpacedArrowLineYieldsEndpoint ==
    (ex_out.done /\ HasDataLine(ex_in, LineV4Spaced)) => EpV4 \in ex_out.endpoints

\* C3 amended: the set contains "192.168.1.1" when the line has the address
\* directly after the arrow ("...10.0.0.1:55->192.168.1.1:80 (ESTABLISHED)");
\* a line whose arrow is followed by a space contributes no endpoint.
C3_ArrowLineYieldsEndpoint ==
    ex_out.done =>
        /\ HasDataLine(ex_in, LineV4) => EpV4 \in ex_out.endpoints
        /\ (\A k \in 2..Len(Lines(ex_in)) :
                Lines(ex_in)[k] \in {LineV4Spaced, LineV6BracketSpaced, LineListen})
           => ex_out.endpoints = {}

C3_Witness ==
    /\ ex_out.done
    /\ Lines(ex_in) = <<Header, LineV4Spaced, LineV4>>
    /\ ex_out.endpoints = {EpV4}

\* C4 as stated: a line after the header that holds the arrow, a bracketed
\* IPv6 literal and a port ("-> [2001:db8::1]:443 ", and the same as lsof
\* prints it, without the space) puts "2001:db8::1" in the extracted set.
C4_BracketedIpv6Extracted ==
    ex_out.done =>
        \A line \in {LineV6BracketSpaced, LineV6Bracket} :
            HasDataLine(ex_in, line) => EpV6 \in ex_out.endpoints

\* what each line of ExLines is to contribute when it follows the header:
\* the address right after the arrow, up to the port's ':' or a blank
Yields(line) ==
    IF line = LineV4 THEN {EpV4}
    ELSE IF line = LineV4Bracket THEN {<<"1", ".", "2", ".", "3", ".", "4">>}
    ELSE IF line = LineUnterminated THEN {<<"a", ".", "b">>}
    ELSE {}

\* C16: unbracketed IPv6 endpoints are dropped.  A line whose text after
\* "->" is an unbracketed IPv6 literal with its port ("2001:db8::1:443",
\* "::ffff:10.0.0.1:443") adds nothing to the active set and makes no history
\* entry: the set is what the other lines contribute, with one entry each,
\* and no piece of the literal is in it.
C16_BareIpv6Dropped ==
    ex_out.done =>
        LET ls == Lines(ex_in)
            rest == {k \in 2..Len(ls) : ls[k] \notin {LineV6Bare, LineV6Mapped}}
        IN /\ ex_out.endpoints = UNION {Yields(ls[k]) : k \in rest}
           /\ Len(ex_out.new_entries) = Cardinality(ex_out.endpoints)
           /\ \A k \in 1..Len(ex_out.new_entries) :
                 \E e \in UNION {Yields(ls[j]) : j \in rest} :
                    ex_out.new_entries[k] = HistoryEntry(CHOOSE ts \in Timestamps : TRUE, e)
           /\ \A e \in ex_out.endpoints : \A i \in 1..Len(e) : e[i] # ":"

\* an unbracketed IPv6 line and an IPv4 line after the header: one endpoint
C16_Witness ==
    /\ ex_out.done
    /\ Lines(ex_in) = <<Header, LineV6Bare, LineV4>>
    /\ ex_out.endpoints = {EpV4}
    /\ Len(ex_out.new_entries) = 1

-----------------------------------------------------------------------------
(* Properties of the program (Spec) *)

\* the endpoint a history entry "[HH:MM:SS] <endpoint>" was made for
EntryEndpoint(entry) == SubSeq(entry, Len(HistoryEntry(CHOOSE ts \in Timestamps : TRUE, <<>>)) + 1, Len(entry))

EndpointsOf(entries) == [k \in 1..Len(entries) |-> EntryEndpoint(entries[k])]

\* the presenter takes the oldest message out of the channel in this step
Applying == chan # <<>> /\ chan' = Tail(chan)

IsPrefix(s, t) == Len(s) <= Len(t) /\ SubSeq(t, 1, Len(s)) = s

RECURSIVE Flatten(_)
Flatten(ss) == IF ss = <<>> THEN <<>> ELSE Head(ss) \o Flatten(Tail(ss))

\* C1: first-contact log.  No two entries of the view model's history log are
\* for the same endpoint, whatever polls and errors came before, and every
\* endpoint the poller ever announced is still in its announced set.
C1_OneEntryPerEndpoint ==
    /\ \A i, j \in 1..Len(history_log) :
           EntryEndpoint(history_log[i]) = EntryEndpoint(history_log[j]) => i = j
    /\ \A k \in 1..Len(generated) : EntryEndpoint(generated[k]) \in seen_ips_thread_copy

\* EpB has its entry, the applied poll no longer lists it, and the next poll,
\* waiting in the channel, lists it again and brings no entry.
C1_Witness ==
    /\ \E i \in 1..Len(history_log) : EntryEndpoint(history_log[i]) = EpB
    /\ active_connections = <<EpA>>
    /\ chan # <<>>
    /\ Head(chan).type = "DataUpdate"
    /\ EpB \in Range(Head(chan).active)
    /\ Head(chan).new_history_entries = <<>>

\* C5: the history log is append-only and counted.  Applying a DataUpdate
\* appends exactly its new_history_entries, in order; every other step (an
\* Error, a key, the poller) leaves the log as it is; the length of the log
\* is the number of entries the applied DataUpdates carried.
C5_HistoryAppendOnly ==
    [][ /\ IF Applying /\ Head(chan).type = "DataUpdate"
           THEN history_log' = history_log \o Head(chan).new_history_entries
           ELSE history_log' = history_log
        /\ IsPrefix(history_log, history_log')
        /\ Len(history_log') = applied_entries' ]_vars

\* two entries are in the log, an Error was applied after them and a key
\* moved the focus
C5_Witness ==
    /\ Len(history_log) = 2
    /\ applied_entries = 2
    /\ last_status_msg.fmt = "LSOF Error: {}"
    /\ focus = "HistoryList"

\* C7: applying an Error message sets the status to the message and clears
\* the active list, and leaves history_log and seen_ips as they were.
C7_ErrorKeepsHistory ==
    [][ (Applying /\ Head(chan).type = "Error") =>
            /\ last_status_msg' = Head(chan).msg
            /\ active_connections' = <<>>
            /\ history_log' = history_log
            /\ seen_ips' = seen_ips ]_vars

\* an Error was applied on top of a populated model
C7_Witness ==
    /\ last_status_msg.fmt \in {"PGREP Error: {}", "LSOF Error: {}", "Waiting for process '{}'..."}
    /\ active_connections = <<>>
    /\ Len(history_log) = 2
    /\ seen_ips = {EpA, EpB}

\* C8: FIFO end to end.  The entries the poller generated, in the order it
\* pushed them, are the view model's log followed by the entries of the
\* waiting messages, oldest message first: nothing is applied out of order.
C8_EntriesInGenerationOrder ==
    generated = history_log \o Flatten([k \in 1..Len(chan) |-> chan[k].new_history_entries])

\* one entry is applied and a later message is waiting with the next one
C8_Witness ==
    /\ Len(history_log) = 1
    /\ Len(chan) = 2
    /\ chan[2].new_history_entries # <<>>

\* C9: the poller survives every tool failure.  An iteration that is over
\* has sent exactly one message, an Error when a tool failed or no process
\* matched and a DataUpdate otherwise; one that is under way has sent none;
\* and the thread always has a next step while the process runs.
C9_OneMessagePerIteration ==
    /\ poll_pc \in {"pgrep", "lsof", "sleep"}
    /\ poll_pc # "sleep" => emitted = <<>>
    /\ poll_pc = "sleep" =>
          /\ Len(emitted) = 1
          /\ last_poll.done
          /\ emitted[1].type = (IF last_poll.kind = "data" THEN "DataUpdate" ELSE "Error")
          /\ Running => ENABLED Sleep
    /\ (poll_pc = "lsof" /\ Running) => ENABLED Lsof

\* a DataUpdate was sent by an iteration that followed a failed one
C9_Witness ==
    /\ poll_pc = "sleep"
    /\ Len(chan) = 2
    /\ chan[1].type = "Error"
    /\ chan[2].type = "DataUpdate"
    /\ emitted = <<chan[2]>>

\* C10 as stated: wherever the focused list is not empty and its cursor
\* holds any index, previous() after next() gives the index back.
C10_RoundTripFromAnyIndex ==
    (pres_pc = "frame" /\ FocusedLen > 0 /\ FocusedState(Cursors) # None) =>
        FocusedState(previous(next(Cursors))) = FocusedState(Cursors)

\* C10 amended: the round trip holds when the cursor's index is inside the
\* list (0 <= index < len); next() at len-1 gives 0, previous() at 0 gives
\* len-1; on an empty focused list both leave the cursors alone.
C10_RoundTripAndWrap ==
    pres_pc = "frame" =>
        LET sel == FocusedState(Cursors) IN
        /\ (FocusedLen > 0 /\ sel \in 0..(FocusedLen - 1)) =>
              /\ FocusedState(previous(next(Cursors))) = sel
              /\ sel = FocusedLen - 1 => FocusedState(next(Cursors)) = 0
              /\ sel = 0 => FocusedState(previous(Cursors)) = FocusedLen - 1
        /\ FocusedLen = 0 => (next(Cursors) = Cursors /\ previous(Cursors) = Cursors)

\* the cursor was moved to the last row of a two-row list
C10_Witness ==
    /\ pres_pc = "frame"
    /\ FocusedLen = 2
    /\ FocusedState(Cursors) = 1

-----------------------------------------------------------------------------
(* End to end: the program with every poll outcome and every applied active *)
(* list logged, the user pressing no key.  The socket tool lists EpA with    *)
(* one of EpB, EpC, EpD.                                                     *)

MaxPolls == 4       \* poll iterations of a logged run

LoggedLsofOutputs ==
    { Stdout(<<Header, ConnLine(EpA), ConnLine(EpB)>>),
      Stdout(<<Header, ConnLine(EpA), ConnLine(EpC)>>),
      Stdout(<<Header, ConnLine(EpD), ConnLine(EpA)>>) }

LogPoll == poll_log' = IF poll_pc' = "sleep" THEN Append(poll_log, last_poll') ELSE poll_log

LoggedPgrep ==
    /\ Len(poll_log) < MaxPolls
    /\ \E r \in ToolResults(PgrepOutputs) : PollPgrep(r)
    /\ LogPoll
    /\ UNCHANGED <<active_trace, harness, main_vars>>

LoggedLsof ==
    /\ \E r \in ToolResults(LoggedLsofOutputs) : \E clock \in Clocks(r.stdout) : PollLsof(r, clock)
    /\ LogPoll
    /\ UNCHANGED <<active_trace, harness, main_vars>>

TracedApply ==
    /\ DrainApply
    /\ active_trace' = Append(active_trace, active_connections')
    /\ UNCHANGED <<poll_log, harness, main_vars>>

NextLogged == LoggedPgrep \/ LoggedLsof \/ Sleep \/ NoKey \/ TracedApply \/ Drained

SpecLogged == Init /\ [][NextLogged]_vars

\* the endpoints one poll lists, line by line (nothing for a failed poll)
PollEndpoints(p) ==
    IF p.kind # "data" THEN <<>>
    ELSE LET ls == Lines(p.stdout)
         IN Flatten([k \in 1..(Len(ls) - 1) |-> LineEndpoint(ls[k + 1])])

\* s without the later occurrences of its elements
RECURSIVE KeepFirst(_)
KeepFirst(s) ==
    IF s = <<>> THEN <<>>
    ELSE LET r == KeepFirst(SubSeq(s, 1, Len(s) - 1))
         IN IF s[Len(s)] \in Range(r) THEN r ELSE Append(r, s[Len(s)])

\* every message of every finished poll has been applied
AllApplied == chan = <<>> /\ Len(active_trace) = Len(poll_log)

\* polls {A,B}, {A,C}, process not found, {A,D}
Scenario ==
    << Outcome("data", Stdout(<<Header, ConnLine(EpA), ConnLine(EpB)>>)),
       Outcome("data", Stdout(<<Header, ConnLine(EpA), ConnLine(EpC)>>)),
       Outcome("not_found", <<>>),
       Outcome("data", Stdout(<<Header, ConnLine(EpD), ConnLine(EpA)>>)) >>

\* C2: end to end.  Once every message is applied, the history holds one
\* entry per distinct endpoint of the successful polls, in order of first
\* appearance; the active list went through each poll's endpoint set in poll
\* order (empty for a failed poll) and is the last poll's; seen_ips is the
\* set of history endpoints.  For polls {A,B}, {A,C}, not found, {A,D}:
\* history A, B, C, D; active [A,B], [A,C], [], [A,D]; seen_ips {A,B,C,D}.
C2_EndToEnd ==
    AllApplied =>
        /\ EndpointsOf(history_log)
              = KeepFirst(Flatten([k \in 1..Len(poll_log) |-> PollEndpoints(poll_log[k])]))
        /\ \A k \in 1..Len(poll_log) :
              /\ Range(active_trace[k]) = Range(PollEndpoints(poll_log[k]))
              /\ Cardinality(Range(active_trace[k])) = Len(active_trace[k])
        /\ poll_log # <<>> => active_connections = active_trace[Len(active_trace)]
        /\ seen_ips = Range(EndpointsOf(history_log))
        /\ poll_log = Scenario =>
              /\ EndpointsOf(history_log) = <<EpA, EpB, EpC, EpD>>
              /\ active_trace = << <<EpA, EpB>>, <<EpA, EpC>>, <<>>, <<EpA, EpD>> >>
              /\ seen_ips = {EpA, EpB, EpC, EpD}

\* the scenario has run and all four messages are applied
C2_Witness ==
    /\ AllApplied
    /\ poll_log = Scenario
    /\ Len(history_log) = 4
    /\ active_connections = <<EpA, EpD>>

-----------------------------------------------------------------------------
(* The view model fed long histories, as the unit tests of update_seen_ips  *)
(* build them (main.rs 403-413, 381-390): entry number i is                  *)
(* "[12:00:ii] 192.168.1.i"; a repeated entry names address 0 again.         *)

MaxFill == 1002         \* entries a filled history may reach
MaxRepeats == 1         \* repeated entries in a filled history

FillBatches == {91}     \* entries one DataUpdate carries; 11 of them make 1001

\* format!("{}", n)
RECURSIVE Dec(_)
Dec(n) == IF n < 10 THEN <<Digits[n + 1]>> ELSE Append(Dec(n \div 10), Digits[(n % 10) + 1])

\* format!("{:02}", n)
Pad2(n) == IF n < 10 THEN <<"0">> \o Dec(n) ELSE Dec(n)

TestAddress(n) == <<"1", "9", "2", ".", "1", "6", "8", ".", "1", ".">> \o Dec(n)

\* format!("[12:00:{:02}] 192.168.1.{}", i, n)
TestEntry(i, n) ==
    <<"[", "1", "2", ":", "0", "0", ":">> \o Pad2(i) \o <<"]", " ">> \o TestAddress(n)

Repeats == Len(filled) - Cardinality(Range(filled))

\* a DataUpdate carrying k entries for addresses not seen before
FillFresh ==
    /\ \E k \in FillBatches :
        /\ Len(history_log) + k <= MaxFill
        /\ LET at == Len(history_log)
               entries == [j \in 1..k |-> TestEntry(at + j - 1, at + j - 1)]
           IN /\ ApplyDataUpdate(DataUpdate(<<>>, entries, Fmt("Monitoring PID: {}", <<"7">>)))
              /\ filled' = filled \o [j \in 1..k |-> TestAddress(at + j - 1)]
    /\ UNCHANGED <<poller_vars, chan, app_ui, pres_pc, observed, log_vars, ex_in, ex_out, main_vars>>

\* a DataUpdate carrying one entry for address 0 once more
FillRepeat ==
    /\ filled # <<>>
    /\ Repeats < MaxRepeats
    /\ Len(history_log) + 1 <= MaxFill
    /\ ApplyDataUpdate(DataUpdate(<<>>, <<TestEntry(Len(history_log), 0)>>,
                                  Fmt("Monitoring PID: {}", <<"7">>)))
    /\ filled' = Append(filled, TestAddress(0))
    /\ UNCHANGED <<poller_vars, chan, app_ui, pres_pc, observed, log_vars, ex_in, ex_out, main_vars>>

\* an Error message between the updates
FillError ==
    /\ \E e \in IoErrors : ApplyError(Error(Fmt("LSOF Error: {}", e)))
    /\ UNCHANGED <<poller_vars, chan, app_ui, pres_pc, observed, log_vars, harness, main_vars>>

NextFilled == FillFresh \/ FillRepeat \/ FillError

SpecFilled == Init /\ [][NextFilled]_vars

\* C6: seen_ips is a function of the history tail.  After any sequence of
\* applied DataUpdate and Error messages seen_ips is the set of addresses of
\* the last min(len, 1000) entries, so it has at most min(len, 1000)
\* elements; with 1001 entries for distinct addresses it has exactly 1000,
\* lacks the oldest entry's address and holds the newest.
C6_SeenIpsIsHistoryTail ==
    LET n == Len(history_log)
        tail == {i \in 1..n : i > n - 1000}
    IN /\ Len(filled) = n
       /\ \A i \in 1..n : LastToken(history_log[i]) = <<filled[i]>>
       /\ seen_ips = {LastToken(history_log[i])[1] : i \in tail}
       /\ seen_ips = {filled[i] : i \in tail}
       /\ Cardinality(seen_ips) <= (IF n < 1000 THEN n ELSE 1000)
       /\ (n = 1001 /\ Repeats = 0) =>
             /\ Cardinality(seen_ips) = 1000
             /\ filled[1] \notin seen_ips
             /\ filled[1001] \in seen_ips

\* 1001 entries for distinct addresses have been applied
C6_Witness ==
    /\ Len(history_log) = 1001
    /\ Repeats = 0
    /\ Cardinality(seen_ips) = 1000
    /\ history_log[1001] = TestEntry(1000, 1000)

-----------------------------------------------------------------------------
(* The program when the socket tool lists text that is no IP address beside *)
(* addresses: the extractor takes any candidate with a '.' (main.rs 189).   *)

\* "5.5": no IpAddr; as text it lies between "10.0.0.1" and "9.0.0.1"
EpShort == <<"5", ".", "5">>

MixedLsofOutputs ==
    { Stdout(<<Header, ConnLine(EpA), ConnLine(EpB), ConnLine(EpShort)>>),
      Stdout(<<Header, ConnLine(EpShort), ConnLine(EpA)>>),
      Stdout(<<Header, ConnLine(EpB), ConnLine(EpA)>>) }

MixedLsof ==
    Idle /\ \E r \in ToolResults(MixedLsofOutputs) : \E clock \in Clocks(r.stdout) : PollLsof(r, clock)

NextMixed == Pgrep \/ MixedLsof \/ Sleep \/ NoKey \/ Apply \/ Drained

SpecMixed == Init /\ [][NextMixed]_vars

\* C11 as stated: the view model's active list is always sorted and free of
\* duplicates: for all positions i < j, active[i] does not compare greater
\* than active[j] under the rule "both parse as IP addresses: compare as
\* addresses, otherwise compare as text", also when the extracted set mixes
\* text that parses with text that does not.
C11_ActiveAlwaysSorted ==
    /\ \A i, j \in 1..Len(active_connections) :
          i < j => CompareConnections(active_connections[i], active_connections[j]) # "Greater"
    /\ Cardinality(Range(active_connections)) = Len(active_connections)

-----------------------------------------------------------------------------
(* The Endpoint Extractor on arbitrary text: every string of up to          *)
(* MaxTextLen characters over the characters the extractor looks at, and    *)
(* the line-built outputs above.                                            *)

TextAlphabet == {"-", ">", ".", "[", "]", ":", " ", "\n"}

MaxTextLen == 6

TextInputs(k) == [1..k -> TextAlphabet]

InitText ==
    /\ InitProgram
    /\ InitInRunApp
    /\ poll_log = <<>>
    /\ active_trace = <<>>
    /\ filled = <<>>
    /\ \/ \E k \in 0..MaxTextLen : ex_in \in TextInputs(k)
       \/ ex_in \in ExtractInputs
    /\ ex_out = [done |-> FALSE, endpoints |-> {}, new_entries |-> <<>>]

SpecText == InitText /\ [][NextExtract]_vars

\* the line holds "->" somewhere
HasArrow(line) == \E p \in 1..(Len(line) - 1) : line[p] = "-" /\ line[p + 1] = ">"

\* C12: whatever the text, every extracted endpoint is non-empty and holds a
\* '.' or a ':', bracket-stripped ones included; the first line, and every
\* line without "->", contributes nothing, so a header-only text and a text
\* whose later lines have no arrow yield the empty set.
C12_EndpointsWellFormed ==
    ex_out.done =>
        /\ \A e \in ex_out.endpoints :
              e # <<>> /\ \E i \in 1..Len(e) : e[i] \in {".", ":"}
        /\ Len(Lines(ex_in)) <= 1 => ex_out.endpoints = {}
        /\ (\A k \in 2..Len(Lines(ex_in)) : ~HasArrow(Lines(ex_in)[k])) => ex_out.endpoints = {}

\* "->[.]" on the second line: the brackets are stripped and "." is returned
C12_Witness ==
    /\ ex_out.done
    /\ ex_in = <<"\n", "-", ">", "[", ".", "]">>
    /\ ex_out.endpoints = {<<".">>}

-----------------------------------------------------------------------------
(* Properties of the keys and of message application (Spec) *)

\* C13: toggle_focus is an involution.  Applied twice it gives the focus
\* back, applied once it gives the other of ActiveList and HistoryList, and
\* the key that calls it changes the focus and leaves both cursors, both
\* lists, seen_ips and the status string as they were.
C13_ToggleFocusInvolution ==
    [][ /\ focus \in {"ActiveList", "HistoryList"}
        /\ toggle_focus(focus) \in {"ActiveList", "HistoryList"} \ {focus}
        /\ toggle_focus(toggle_focus(focus)) = focus
        /\ ToggleFocus =>
              /\ focus' # focus
              /\ toggle_focus(focus') = focus
              /\ UNCHANGED <<active_state, history_state, active_connections,
                             history_log, seen_ips, last_status_msg>>
        /\ focus' # focus => ToggleFocus ]_vars

\* the focus was moved to the history list on a model with a selected row,
\* two history entries and a status
C13_Witness ==
    /\ focus = "HistoryList"
    /\ active_state = 0
    /\ Len(history_log) = 2
    /\ seen_ips = {EpA, EpB}
    /\ last_status_msg.fmt = "Monitoring PID: {}"

-----------------------------------------------------------------------------
(* main (main.rs 131-148) around run_app: terminal set-up, the program,     *)
(* tear-down, exit status.  Every terminal call may return an io::Error.    *)

\* `?` in main on an Err: main returns it and the process exits with status 1
MainFails(call) ==
    /\ main_pc' = "exited"
    /\ exit_code' = 1
    /\ failed' = failed \cup {call}

\* enable_raw_mode()? (main.rs 134)
EnableRawMode ==
    /\ main_pc = "enable_raw_mode"
    /\ \E ok \in BOOLEAN :
          IF ok THEN /\ raw_mode' = TRUE
                     /\ main_pc' = "enter_alternate_screen"
                     /\ UNCHANGED <<exit_code, failed>>
                ELSE MainFails("enable_raw_mode") /\ UNCHANGED raw_mode
    /\ UNCHANGED <<alternate_screen, res>>
    /\ UNCHANGED <<poller_vars, chan, app_data, app_ui, pres_pc, observed, log_vars, harness>>

\* execute!(stdout, EnterAlternateScreen)? (main.rs 136)
EnterAlternateScreen ==
    /\ main_pc = "enter_alternate_screen"
    /\ \E ok \in BOOLEAN :
          IF ok THEN /\ alternate_screen' = TRUE
                     /\ main_pc' = "run_app"
                     /\ UNCHANGED <<exit_code, failed>>
                ELSE MainFails("enter_alternate_screen") /\ UNCHANGED alternate_screen
    /\ UNCHANGED <<raw_mode, res>>
    /\ UNCHANGED <<poller_vars, chan, app_data, app_ui, pres_pc, observed, log_vars, harness>>

\* run_app returns Err(e) to main (main.rs 138)
RunAppErr(call) ==
    /\ pres_pc' = "error"
    /\ res' = "Err"
    /\ main_pc' = "disable_raw_mode"
    /\ failed' = failed \cup {call}

\* Terminal::new(CrosstermBackend::new(terminal))? (main.rs 151), then
\* App::new, the channel and the poller thread (152-156)
TerminalNew ==
    /\ main_pc = "run_app"
    /\ pres_pc = "terminal_new"
    /\ \E ok \in BOOLEAN :
          IF ok THEN pres_pc' = "frame" /\ UNCHANGED <<main_pc, res, failed>>
                ELSE RunAppErr("terminal_new")
    /\ UNCHANGED <<raw_mode, alternate_screen, exit_code>>
    /\ UNCHANGED <<poller_vars, chan, app_data, app_ui, observed, log_vars, harness>>

\* terminal.draw(..)?, event::poll(..)? or event::read()? returns Err
\* (main.rs 241-244)
FrameIoError ==
    /\ main_pc = "run_app"
    /\ pres_pc = "frame"
    /\ RunAppErr("frame")
    /\ UNCHANGED <<raw_mode, alternate_screen, exit_code>>
    /\ UNCHANGED <<poller_vars, chan, app_data, app_ui, observed, log_vars, harness>>

\* run_app returned Ok(()) after 'q' (main.rs 247, 138)
RunAppOk ==
    /\ main_pc = "run_app"
    /\ pres_pc = "quit"
    /\ res' = "Ok"
    /\ main_pc' = "disable_raw_mode"
    /\ UNCHANGED <<raw_mode, alternate_screen, exit_code, failed>>
    /\ UNCHANGED <<poller_vars, chan, app_data, app_ui, pres_pc, observed, log_vars, harness>>

\* disable_raw_mode()? (main.rs 140)
DisableRawMode ==
    /\ main_pc = "disable_raw_mode"
    /\ \E ok \in BOOLEAN :
          IF ok THEN /\ raw_mode' = FALSE
                     /\ main_pc' = "leave_alternate_screen"
                     /\ UNCHANGED <<exit_code, failed>>
                ELSE MainFails("disable_raw_mode") /\ UNCHANGED raw_mode
    /\ UNCHANGED <<alternate_screen, res>>
    /\ UNCHANGED <<poller_vars, chan, app_data, app_ui, pres_pc, observed, log_vars, harness>>

\* execute!(stdout, LeaveAlternateScreen)? (main.rs 141)
LeaveAlternateScreen ==
    /\ main_pc = "leave_alternate_screen"
    /\ \E ok \in BOOLEAN :
          IF ok THEN /\ alternate_screen' = FALSE
                     /\ main_pc' = "report"
                     /\ UNCHANGED <<exit_code, failed>>
                ELSE MainFails("leave_alternate_screen") /\ UNCHANGED alternate_screen
    /\ UNCHANGED <<raw_mode, res>>
    /\ UNCHANGED <<poller_vars, chan, app_data, app_ui, pres_pc, observed, log_vars, harness>>

\* main.rs 143-147: print "App Error: .." if res is an Err, then Ok(()):
\* the process exits with status 0
MainReturns ==
    /\ main_pc = "report"
    /\ main_pc' = "exited"
    /\ exit_code' = 0
    /\ UNCHANGED <<raw_mode, alternate_screen, res, failed>>
    /\ UNCHANGED <<poller_vars, chan, app_data, app_ui, pres_pc, observed, log_vars, harness>>

\* the process at the first statement of main
InitMain ==
    /\ seen_ips_thread_copy = {}
    /\ poll_pc = "pgrep"
    /\ pid = <<>>
    /\ chan = <<>>
    /\ active_connections = <<>>
    /\ history_log = <<>>
    /\ seen_ips = {}
    /\ last_status_msg = Fmt("Initializing...", <<>>)
    /\ focus = "ActiveList"
    /\ active_state = None
    /\ history_state = None
    /\ pres_pc = "terminal_new"
    /\ generated = <<>>
    /\ emitted = <<>>
    /\ last_poll = NoPoll
    /\ applied_entries = 0
    /\ poll_log = <<>>
    /\ active_trace = <<>>
    /\ ex_in = <<>>
    /\ ex_out = [done |-> FALSE, endpoints |-> {}, new_entries |-> <<>>]
    /\ filled = <<>>
    /\ main_pc = "enable_raw_mode"
    /\ raw_mode = FALSE
    /\ alternate_screen = FALSE
    /\ res = "none"
    /\ exit_code = None
    /\ failed = {}

NextMain ==
    \/ EnableRawMode \/ EnterAlternateScreen \/ TerminalNew \/ FrameIoError
    \/ RunAppOk \/ DisableRawMode \/ LeaveAlternateScreen \/ MainReturns
    \/ Pgrep \/ Lsof \/ Sleep \/ NoKey \/ Quit \/ Apply \/ Drained

SpecMain == InitMain /\ [][NextMain]_vars

\* C14 as stated: the exit status is 0 on a clean quit ('q', every terminal
\* call having succeeded), with raw mode disabled and the alternate screen
\* left, and non-zero whenever terminal set-up failed: enabling raw mode,
\* entering the alternate screen, or building the terminal inside run_app.
C14_ExitStatus ==
    main_pc = "exited" =>
        /\ (res = "Ok" /\ failed = {}) =>
              exit_code = 0 /\ ~raw_mode /\ ~alternate_screen
        /\ failed \cap {"enable_raw_mode", "enter_alternate_screen", "terminal_new"} # {} =>
              exit_code # 0

-----------------------------------------------------------------------------
(* The program when the process lookup prints blank lines: pid_str.lines()  *)
(* .next() is the first line whatever it holds (main.rs 167-168).           *)

\* no line; a PID; a PID with blanks around it; an empty line before the PID;
\* a line of one space
BlankPgrepOutputs ==
    { <<>>, <<"7", "\n">>, <<" ", "7", " ", "\n">>, <<"\n", "7", "\n">>, <<" ", "\n">> }

\* what lsof prints for the PID it is given; nothing when it rejects its arguments
PidLsofOutputs == { <<>>, Stdout(<<Header>>), Stdout(<<Header, ConnLine(EpA)>>) }

BlankPgrep == Idle /\ \E r \in ToolResults(BlankPgrepOutputs) : PollPgrep(r)

PidLsof ==
    Idle /\ \E r \in ToolResults(PidLsofOutputs) : \E clock \in Clocks(r.stdout) : PollLsof(r, clock)

NextPid == BlankPgrep \/ PidLsof \/ Sleep \/ NoKey \/ Apply \/ Drained

SpecPid == Init /\ [][NextPid]_vars

\* C15 as stated: the PID handed to the socket tool is the first non-empty
\* line of the lookup output, trimmed, so the tool is never invoked with an
\* empty PID; an output with no such line ends the iteration with the
\* "Waiting for process" Error and the tool is not invoked.
C15_PidNeverEmpty ==
    /\ poll_pc = "lsof" => pid # <<>>
    /\ \A k \in 1..Len(chan) :
          chan[k].type = "DataUpdate" => chan[k].msg.arg # <<>>

-----------------------------------------------------------------------------
(* The logged program with a presenter that keeps running: event::poll      *)
(* returns within 16 ms and try_recv never blocks (main.rs 243, 259), so a  *)
(* frame step, an apply step or the end of the drain that can be taken is   *)
(* taken.  The user presses no key, 'q' in particular.                      *)

MaxFairPolls == 3   \* poll iterations of a fair run

FairPgrepOutputs == { <<>>, <<"7", "\n">> }

FairLsofOutputs ==
    { Stdout(<<Header, ConnLine(EpA), ConnLine(EpB)>>),
      Stdout(<<Header, ConnLine(EpC)>>) }

FairPgrep ==
    /\ Len(poll_log) < MaxFairPolls
    /\ \E r \in ToolResults(FairPgrepOutputs) : PollPgrep(r)
    /\ LogPoll
    /\ UNCHANGED <<active_trace, harness, main_vars>>

FairLsof ==
    /\ \E r \in ToolResults(FairLsofOutputs) : \E clock \in Clocks(r.stdout) : PollLsof(r, clock)
    /\ LogPoll
    /\ UNCHANGED <<active_trace, harness, main_vars>>

NextFair == FairPgrep \/ FairLsof \/ Sleep \/ NoKey \/ TracedApply \/ Drained

SpecFair ==
    /\ Init
    /\ [][NextFair]_vars
    /\ WF_vars(NoKey)
    /\ WF_vars(TracedApply)
    /\ WF_vars(Drained)

\* C17: every message is eventually applied, exactly once.  At any time the
\* messages sent are the ones applied followed by the ones waiting, the
\* k-th message applied is the k-th one sent, the drain ends only on an
\* empty channel, and the n-th message sent is in the end the n-th applied,
\* however many wait at a time.
C17_EveryMessageApplied ==
    /\ [](/\ Len(active_trace) + Len(chan) = Len(poll_log)
          /\ \A k \in 1..Len(active_trace) :
                Range(active_trace[k]) = Range(PollEndpoints(poll_log[k])))
    /\ [][(pres_pc = "drain" /\ pres_pc' = "frame") => chan = <<>>]_vars
    /\ \A n \in 1..MaxFairPolls : (Len(poll_log) >= n) ~> (Len(active_trace) >= n)

\* one message was applied and two have gathered since
C17_Witness ==
    /\ pres_pc = "drain"
    /\ Len(active_trace) = 1
    /\ Len(chan) = 2
    /\ Len(poll_log) = 3

-----------------------------------------------------------------------------
(* Selections and messages (Spec) *)

\* C18: selections are not clipped.  Applying a DataUpdate or an Error
\* leaves both cursors and the focus as they were, also when the new active
\* list is shorter than the stored active index or is cleared; an active
\* index at or past the end of the active list is therefore reachable.
C18_ApplyKeepsSelections ==
    [][ Applying =>
            /\ active_connections' = Head(chan).active
            /\ UNCHANGED <<focus, active_state, history_state>> ]_vars

\* the second of two rows was selected and an applied DataUpdate has left
\* one row
C18_Witness ==
    /\ active_state = 1
    /\ Len(active_connections) = 1
    /\ last_status_msg.fmt = "Monitoring PID: {}"

\* C19: active endpoints are always in the history.  After any prefix of the
\* poller's messages is applied, every endpoint of the active list is the
\* endpoint of some history entry and is in seen_ips: its entry came in the
\* same DataUpdate as the first list that holds it, or in an earlier one.
C19_ActiveInHistory ==
    /\ \A i \in 1..Len(active_connections) :
          \E k \in 1..Len(history_log) :
             history_log[k] = HistoryEntry(CHOOSE ts \in Timestamps : TRUE, active_connections[i])
    /\ Range(active_connections) \subseteq seen_ips

\* the list in view came after the message that brought the entries: EpB
\* and EpA were announced together and a later poll lists EpA alone
C19_Witness ==
    /\ active_connections = <<EpA>>
    /\ EndpointsOf(history_log) = <<EpB, EpA>>

\* C20: next() repairs a stale selection.  On a non-empty focused list the
\* cursor after next() is an index of the list, whether it was none, in
\* range or past the end; next() and previous() leave the other list's
\* cursor alone, and the keys that call them (Down, Up, PageDown, PageUp)
\* change neither the focus nor the lists, seen_ips or the status.
C20_NextRepairsSelection ==
    [][ /\ pres_pc = "frame" =>
              LET other(c) == IF focus = "ActiveList" THEN c.history_state ELSE c.active_state
              IN /\ FocusedLen > 0 => FocusedState(next(Cursors)) \in 0..(FocusedLen - 1)
                 /\ other(next(Cursors)) = other(Cursors)
                 /\ other(previous(Cursors)) = other(Cursors)
        /\ (Down \/ PageDown) =>
              /\ FocusedLen > 0 =>
                    (IF focus = "ActiveList" THEN active_state' ELSE history_state')
                        \in 0..(FocusedLen - 1)
              /\ FocusedLen = 0 => UNCHANGED <<active_state, history_state>>
        /\ (Down \/ Up \/ PageDown \/ PageUp) =>
              /\ IF focus = "ActiveList" THEN UNCHANGED history_state
                                         ELSE UNCHANGED active_state
              /\ UNCHANGED <<focus, active_connections, history_log, seen_ips, last_status_msg>>
      ]_vars

\* the active list is focused and has one row, its cursor is still on the
\* second row of the list before, and a frame is about to read a key
C20_Witness ==
    /\ pres_pc = "frame"
    /\ focus = "ActiveList"
    /\ Len(active_connections) = 1
    /\ active_state = 1
    /\ ENABLED Down

====
